---- MODULE Spec2Model ----
(***************************************************************************)
(* Document pre-processing pipeline: main(), PipelineManager.run and the   *)
(* three stage functions it dispatches (normalize, preprocess, layout).    *)
(*                                                                         *)
(* A filesystem path is a record [dir, base, ext]; os.path.basename is the *)
(* pair (base, ext) and os.path.splitext drops ext.  An image is a record  *)
(* [src, ops, channels]: the input file its pixels come from, the image    *)
(* operations applied to it since, in order, and its number of channels    *)
(* (pixel values are uninterpreted; the channel count is what decides      *)
(* whether cv2 accepts the array).                                         *)
(*                                                                         *)
(* pipeline_manager.py imports process_file from step_01, which defines    *)
(* normalize_file instead.  process_file_defined = FALSE is the repository *)
(* as it stands: the import fails and nothing runs.  TRUE is the program   *)
(* with that one name provided, which is what lets run() be exercised.     *)
(***************************************************************************)
EXTENDS Integers, Sequences, FiniteSets, TLC

VARIABLES
    entry,                \* "main": python main.py; "process_image": step_02.process_image called alone
    pc,                   \* control point of the entry
    process_file_defined, \* does steps.step_01_normalize_input export process_file
    config_file,          \* what config.yaml is: one of ConfigFiles
    config,               \* the loaded configuration
    input_files,          \* what find_files yields for input_dir, in walk order
    fs,                   \* image files on disk: path -> image
    step_input_files,     \* run(): output paths of the previous step, or None
    stage,                \* run(): which of the three "if ... in pipeline_steps" blocks is next
    batch,                \* the input_files argument of the stage runner in progress
    results,              \* the results list the stage runner is building
    events,               \* observable history of run()
    exception,            \* the exception raised, or None
    logged,               \* main(): logger.exception was called
    elapsed_reported,     \* main(): the "finished in ... seconds" line was logged
    exit_code,            \* process exit status once pc = "exited" (-1 before)
    image_path,           \* argument of the process_image call most recently made
    writes,               \* cv2.imwrite calls of that process_image call, in order
    model_cache,          \* step_03's module global _model_cache
    constructed,          \* model configs lp.Detectron2LayoutModel was constructed from, in order
    inferences            \* model.detect calls that returned: the caller's model config and the model

vars == <<entry, pc, process_file_defined, config_file, config, input_files, fs,
          step_input_files, stage, batch, results, events, exception, logged,
          elapsed_reported, exit_code, image_path, writes,
          model_cache, constructed, inferences>>

None == "None"

\* ------------------------------------------------------------------ bounds
MaxFiles == 2   \* files discovered in input_dir
MaxPages == 2   \* pages of a PDF
MaxChain == 3   \* filter descriptors in step_02's pipeline (process_image entry)
MaxLayoutCalls == 3   \* calls of step_03's process_image in one process (layout entry)

\* ------------------------------------------------------------- stage names
Stages == {1, 2, 3}

StageName(s) ==
    CASE s = 1 -> "step_01_normalize_input"
      [] s = 2 -> "step_02_preprocess_image"
      [] s = 3 -> "step_03_layout_analysis"

StageNames == {StageName(s) : s \in Stages}

\* x in list
InList(x, list) == \E i \in 1..Len(list) : list[i] = x

\* ------------------------------------------------------------------- paths
Path(d, b, e) == [dir |-> d, base |-> b, ext |-> e]

\* str.lower() on the strings that occur
Lower(s) ==
    CASE s = "PNG" -> "png"
      [] s = "PDF" -> "pdf"
      [] s = "JPG" -> "jpg"
      [] OTHER -> s

\* the input directory: doc<n>.pdf has n pages, photo.JPG decodes, broken.png does not
PdfFile(n) == Path("input", "doc" \o ToString(n), "pdf")
PdfFiles == {PdfFile(n) : n \in 0..MaxPages}
GoodImage == Path("input", "photo", "JPG")
BadImage == Path("input", "broken", "png")
InputUniverse == PdfFiles \cup {GoodImage, BadImage}

PageCount(p) == CHOOSE n \in 0..MaxPages : PdfFile(n) = p

\* an image file as PIL saves it
Image(src) == [src |-> src, ops |-> <<>>, channels |-> 3]

\* cv2.imread(path) of a file that decodes: the default flag IMREAD_COLOR
\* always gives a 3-channel BGR array, whatever was written
ImRead(f, path) == [f[path] EXCEPT !.channels = 3]

\* results of a stage function: a single path, or a list of paths
One(p) == [kind |-> "one", path |-> p]
Many(ps) == [kind |-> "many", paths |-> ps]
Raise(e) == [kind |-> "raise", exc |-> e]

\* ----------------------------------------------- step_01_normalize_input.py
\* a stage function returns the filesystem it leaves and its result
Outcome(f, r) == [fs |-> f, res |-> r]

PagePath(pdf_path, output_dir, output_format, i) ==
    Path(output_dir, pdf_path.base \o "_page_" \o ToString(i), Lower(output_format))

RECURSIVE SavePages(_, _, _, _, _, _)
SavePages(f, pdf_path, output_dir, output_format, i, n) ==
    IF i > n THEN f
    ELSE LET output_path == PagePath(pdf_path, output_dir, output_format, i)
         IN SavePages([p \in DOMAIN f \cup {output_path} |->
                          IF p = output_path THEN Image(output_path.base) ELSE f[p]],
                      pdf_path, output_dir, output_format, i + 1, n)

process_pdf(f, pdf_path, output_dir, dpi, output_format) ==
    LET n == PageCount(pdf_path)
    IN Outcome(SavePages(f, pdf_path, output_dir, output_format, 1, n),
               Many([i \in 1..n |-> PagePath(pdf_path, output_dir, output_format, i)]))

normalize_process_image(f, path, output_dir, output_format) ==
    IF path = BadImage
    THEN Outcome(f, Raise("UnidentifiedImageError"))
    ELSE LET output_path == Path(output_dir, path.base, Lower(output_format))
         IN Outcome([p \in DOMAIN f \cup {output_path} |->
                        IF p = output_path THEN Image(path.base) ELSE f[p]],
                    One(output_path))

normalize_file(f, file_path, output_dir, pdf_dpi, output_format) ==
    IF Lower(file_path.ext) = "pdf"
    THEN process_pdf(f, file_path, output_dir, pdf_dpi, output_format)
    ELSE normalize_process_image(f, file_path, output_dir, output_format)

\* The name pipeline_manager.py imports; step_01 defines no such function.
\* Where it is provided, it is the per-file normalization of the
\* Normalize-Input Runner, taking its options from the stage's config block.
process_file(f, file_path, cfg) ==
    normalize_file(f, file_path,
                   cfg.step_01.output_dir, cfg.step_01.pdf_dpi, cfg.step_01.output_format)

\* ----------------------------------------------- step_02_preprocess_image.py
FilterTypes == {"grayscale", "denoise", "threshold", "deskew"}
ThresholdMethods == {"adaptive_gaussian", "otsu", "simple"}

Applied(img, op) == [img EXCEPT !.ops = Append(@, op)]

\* what a filter function does: it returns an image, or raises exc
Returned(img) == [ok |-> TRUE, img |-> img, exc |-> None]
Raised(img, e) == [ok |-> FALSE, img |-> img, exc |-> e]

\* cv2.cvtColor(image, cv2.COLOR_BGR2GRAY) takes 3 or 4 channels
apply_grayscale(img) ==
    IF img.channels = 1
    THEN Raised(img, "cv2.error")
    ELSE Returned([Applied(img, "grayscale") EXCEPT !.channels = 1])

\* cv2.GaussianBlur keeps the shape
apply_denoise(img, params) == Applied(img, "denoise")

\* the angle is estimated on a grayscale copy (converted only when the image
\* has more than one channel); cv2.warpAffine rotates the image itself
apply_deskew(img) == Applied(img, "deskew")

\* params.get("method", "adaptive_gaussian")
GetMethod(params) == IF params.method = None THEN "adaptive_gaussian" ELSE params.method

\* an unknown method is passed over like an unrecognized filter type
apply_threshold_Lenient(img, params) ==
    LET method == GetMethod(params)
    IN IF method \in {"adaptive_gaussian", "otsu"}
       THEN IF img.channels # 1
            THEN Raised(img, "cv2.error")
            ELSE Returned(Applied(img, "threshold:" \o method))
       ELSE IF method = "simple" THEN Returned(Applied(img, "threshold:simple"))
       ELSE Returned(img)

\* cv2.adaptiveThreshold, and cv2.threshold with THRESH_OTSU, take an 8-bit
\* single-channel image only; cv2.threshold with THRESH_BINARY alone takes
\* any; the last branch is ValueError("Unknown threshold method")
apply_threshold(img, params) ==
    LET method == GetMethod(params)
    IN IF method = "adaptive_gaussian"
       THEN IF img.channels # 1
            THEN Raised(img, "cv2.error")
            ELSE Returned(Applied(img, "threshold:adaptive_gaussian"))
       ELSE IF method = "otsu"
       THEN IF img.channels # 1
            THEN Raised(img, "cv2.error")
            ELSE Returned(Applied(img, "threshold:otsu"))
       ELSE IF method = "simple" THEN Returned(Applied(img, "threshold:simple"))
       ELSE Raised(img, "ValueError")

\* cv2.imwrite(path, img)
ImWrite(st, path, img) ==
    [st EXCEPT !.fs = [p \in DOMAIN st.fs \cup {path} |-> IF p = path THEN img ELSE st.fs[p]],
               !.writes = Append(@, [path |-> path, img |-> img])]

\* snapshots of every filter type share one directory
SnapshotPath_NoTypeDir(intermediate_dir, step_type, filename) ==
    Path(intermediate_dir, filename.base, filename.ext)

SnapshotPath(intermediate_dir, step_type, filename) ==
    Path(intermediate_dir \o "/" \o step_type, filename.base, filename.ext)

\* "if save_intermediate and intermediate_dir"
SaveIntermediate(step_config) ==
    step_config.save_intermediate_steps /\ step_config.intermediate_dir # None

\* the "if step_type == ..." dispatch of a recognized type
Dispatch(img, step) ==
    CASE step.type = "grayscale" -> apply_grayscale(img)
      [] step.type = "denoise" -> Returned(apply_denoise(img, step))
      [] step.type = "threshold" -> apply_threshold(img, step)
      [] step.type = "deskew" -> Returned(apply_deskew(img))

\* the enabled flag is not looked at
Skipped_IgnoresEnabled(step) == step.type \notin FilterTypes

\* not step.get("enabled", False), or the final else branch
Skipped(step) == ~step.enabled \/ step.type \notin FilterTypes

\* one iteration of "for step in pipeline_steps"; st.raised ends the loop
ChainStep(st, step, step_config, filename) ==
    IF Skipped(step) THEN st
    ELSE LET r == Dispatch(st.img, step)
         IN IF ~r.ok
            THEN [st EXCEPT !.raised = r.exc]
            ELSE LET st2 == [st EXCEPT !.img = r.img]
                 IN IF SaveIntermediate(step_config)
                    THEN ImWrite(st2,
                                 SnapshotPath(step_config.intermediate_dir, step.type, filename),
                                 r.img)
                    ELSE st2

RECURSIVE ChainLoop(_, _, _, _, _)
ChainLoop(st, pipeline_steps, i, step_config, filename) ==
    IF i > Len(pipeline_steps) \/ st.raised # None THEN st
    ELSE ChainLoop(ChainStep(st, pipeline_steps[i], step_config, filename),
                   pipeline_steps, i + 1, step_config, filename)

\* [fs, res, writes] of process_image(image_path, config)
preprocess_image(f, path, cfg) ==
    LET step_config == cfg.step_02
        filename == [base |-> path.base, ext |-> path.ext]
    IN IF path \notin DOMAIN f
       THEN [fs |-> f, res |-> Raise("FileNotFoundError"), writes |-> <<>>]
       ELSE LET st == ChainLoop([img |-> ImRead(f, path), fs |-> f, writes |-> <<>>,
                                 raised |-> None],
                                step_config.pipeline, 1, step_config, filename)
                final_path == Path(step_config.output_dir, filename.base, filename.ext)
            IN IF st.raised # None
               THEN [fs |-> st.fs, res |-> Raise(st.raised), writes |-> st.writes]
               ELSE LET done == ImWrite(st, final_path, st.img)
                    IN [fs |-> done.fs, res |-> One(final_path), writes |-> done.writes]

\* ------------------------------------------------ step_03_layout_analysis.py
Pair(j, v) == [kind |-> "pair", json |-> j, viz |-> v]

\* _model_cache = None
NoModel == [id |-> 0, config |-> [type |-> None, label_map |-> None]]

\* the n-th lp.Detectron2LayoutModel of the process, built from model_config
Model(n, model_config) == [id |-> n, config |-> model_config]

\* _initialize_model(config): [cache, constructed, model]
initialize_model(cache, built, model_config) ==
    IF cache # NoModel
    THEN [cache |-> cache, constructed |-> built, model |-> cache]
    ELSE LET model == Model(Len(built) + 1, model_config)
         IN [cache |-> model, constructed |-> Append(built, model_config), model |-> model]

\* what the detection library does when it is called: its constructor raises
\* ("load_fails"), model.detect raises ("detect_fails"), or neither ("ok")
LayoutEnvs == {"ok", "load_fails", "detect_fails"}

\* the exception process_image of step_03 is left by, None when it returns:
\* model_config["label_map"] is read first, then the model is fetched (the
\* constructor is called with an empty cache only), then the image is read,
\* then detect is called
layout_raises(f, path, cfg, cache, env) ==
    IF cfg.step_03.model_config.label_map = None THEN "KeyError"
    ELSE IF cache = NoModel /\ env = "load_fails" THEN "RuntimeError"
    ELSE IF path \notin DOMAIN f THEN "FileNotFoundError"
    ELSE IF env = "detect_fails" THEN "RuntimeError"
    ELSE None

\* the model state [cache, constructed, inferences] after process_image of
\* step_03 on path
layout_model_step(st, f, path, cfg, env) ==
    LET model_config == cfg.step_03.model_config
    IN IF model_config.label_map = None \/ (st.cache = NoModel /\ env = "load_fails")
       THEN st
       ELSE LET i == initialize_model(st.cache, st.constructed, model_config)
                fetched == [st EXCEPT !.cache = i.cache, !.constructed = i.constructed]
            IN IF path \notin DOMAIN f \/ env = "detect_fails" THEN fetched
               ELSE [fetched EXCEPT !.inferences =
                        Append(@, [config |-> model_config, model |-> i.model])]

\* _save_visualization: lp.draw_box, cv2.cvtColor(.., COLOR_RGB2BGR), cv2.imwrite
save_visualization(st, image, output_path) ==
    ImWrite(st, output_path, Applied(Applied(image, "draw_box"), "cvtColor:RGB2BGR"))

\* [fs, res, writes] of process_image(image_path, config); cache is
\* _model_cache at the call
layout_analysis(f, path, cfg, cache, env) ==
    LET output_dir == cfg.step_03.output_dir
        json_path == Path(output_dir \o "/json", path.base, "json")
        viz_path == Path(output_dir \o "/visualizations", path.base, "png")
        e == layout_raises(f, path, cfg, cache, env)
    IN IF e # None
       THEN [fs |-> f, res |-> Raise(e), writes |-> <<>>]
       ELSE LET done == save_visualization([fs |-> f, writes |-> <<>>],
                                           ImRead(f, path), viz_path)
            IN [fs |-> done.fs, res |-> Pair(json_path, viz_path), writes |-> done.writes]

\* -------------------------------------------------------- pipeline_manager.py
\* step_input_files is None, or a list
NoFiles == [none |-> TRUE, list |-> <<>>]
Files(l) == [none |-> FALSE, list |-> l]

\* "not step_input_files"
Falsy(v) == v.none \/ Len(v.list) = 0

\* the flattening loop puts the pages of a PDF in front of what it has so far
RECURSIVE Flatten_Prepend(_, _, _)
Flatten_Prepend(res, i, processed_files) ==
    IF i > Len(res) THEN processed_files
    ELSE Flatten_Prepend(res, i + 1,
                         IF res[i].kind = "many"
                         THEN res[i].paths \o processed_files
                         ELSE Append(processed_files, res[i].path))

\* the flattening loop of _run_step_01_normalize_input
RECURSIVE Flatten(_, _, _)
Flatten(res, i, processed_files) ==
    IF i > Len(res) THEN processed_files
    ELSE Flatten(res, i + 1,
                 IF res[i].kind = "many"
                 THEN processed_files \o res[i].paths
                 ELSE Append(processed_files, res[i].path))

\* the layout runner forwards the visualization path of each pair
RunnerReturn_Viz(s, res) ==
    CASE s = 1 -> Flatten(res, 1, <<>>)
      [] s = 2 -> [i \in 1..Len(res) |-> res[i].path]
      [] s = 3 -> [i \in 1..Len(res) |-> res[i].viz]

\* what each stage runner returns once its results list is complete
RunnerReturn(s, res) ==
    CASE s = 1 -> Flatten(res, 1, <<>>)
      [] s = 2 -> [i \in 1..Len(res) |-> res[i].path]
      [] s = 3 -> [i \in 1..Len(res) |-> res[i].json]

\* the stage function called for one item: [fs, res, writes]
StageCall(s, f, item, cfg, cache, env) ==
    CASE s = 1 -> LET o == process_file(f, item, cfg)
                  IN [fs |-> o.fs, res |-> o.res, writes |-> <<>>]
      [] s = 2 -> preprocess_image(f, item, cfg)
      [] s = 3 -> layout_analysis(f, item, cfg, cache, env)

\* the guard tests "is None" only: an empty list passes
MustAbort_NoneOnly(s, files) == s # 1 /\ files.none

\* the model state after the stage function of stage s was called on item
ModelAfter(s, f, item, cfg, env) ==
    LET st == [cache |-> model_cache, constructed |-> constructed, inferences |-> inferences]
    IN IF s = 3 THEN layout_model_step(st, f, item, cfg, env) ELSE st

\* the guard in front of step 2 and step 3
MustAbort(s, files) == s # 1 /\ Falsy(files)

Enabled(s, cfg) == InList(StageName(s), cfg.app_pipeline)

\* the layout block placed in front of the preprocess block
NextStage_LayoutFirst(s) ==
    CASE s = 1 -> 3
      [] s = 3 -> 2
      [] s = 2 -> 4

\* the block of run() that follows the block of stage s
NextStage(s) == s + 1

\* the runner passes over a failing item
AfterItem_Swallow(res) == "items"

\* where control goes after one call of the comprehension: on to the next
\* element, or out of run() to main()'s except clause
AfterItem(res) == IF res.kind = "raise" THEN "except" ELSE "items"

Event(e, s, l) == [ev |-> e, stage |-> s, list |-> l]

\* ---------------------------------------------------------- configurations
Descriptor(t, e, m) == [type |-> t, enabled |-> e, method |-> m]

\* filter descriptors: every recognized type and an unrecognized one, enabled
\* or not; threshold with no method, two known methods and an unknown one
Descriptors ==
    {Descriptor(t, e, None) :
        t \in {"grayscale", "denoise", "deskew", "unknown_op"}, e \in BOOLEAN}
    \cup {Descriptor("threshold", TRUE, m) : m \in {None, "otsu", "simple", "median"}}
    \cup {Descriptor("threshold", FALSE, "median")}

\* the descriptors tried when the whole pipeline runs: an applied filter, an
\* unrecognized type, a failing threshold and a disabled failing threshold
RunDescriptors ==
    {Descriptor("grayscale", TRUE, None), Descriptor("unknown_op", TRUE, None),
     Descriptor("threshold", TRUE, "median"), Descriptor("threshold", FALSE, "median")}

SeqsUpTo(S, n) == UNION {[1..k -> S] : k \in 0..n}

Injective(q) == \A i, j \in 1..Len(q) : q[i] = q[j] => i = j

\* app.pipeline: the stage names in any order, none twice
PipelineLists == {q \in SeqsUpTo(StageNames, Cardinality(StageNames)) : Injective(q)}

InputLists == {q \in SeqsUpTo(InputUniverse, MaxFiles) : Injective(q)}

\* step_03.model_config: the detectron2 config path of the model
\* and its label_map, None when the key is absent
DefaultModelConfig ==
    [type |-> "lp://PubLayNet/mask_rcnn_X_101_32x8d_FPN_3x/config", label_map |-> "PubLayNet"]
ModelConfigs ==
    {DefaultModelConfig,
     [type |-> "lp://PubLayNet/faster_rcnn_R_50_FPN_3x/config", label_map |-> "PubLayNet"],
     [type |-> "lp://PubLayNet/faster_rcnn_R_50_FPN_3x/config", label_map |-> None]}

\* config.yaml: a yaml mapping, no such file, a directory, text that is not
\* yaml, or yaml that is no mapping (empty, a list, a scalar)
ConfigFiles == {"mapping", "missing", "directory", "unparsable", "not_mapping"}

\* the exception load_config(path) raises, None when yaml.safe_load returns
load_config_raises(file) ==
    CASE file = "missing" -> "FileNotFoundError"
      [] file = "directory" -> "IsADirectoryError"
      [] file = "unparsable" -> "YAMLError"
      [] OTHER -> None

Config(app_pipeline, chain, save, idir) ==
    [app_pipeline |-> app_pipeline,
     step_01 |-> [input_dir |-> "input", output_dir |-> "normalized",
                  pdf_dpi |-> 150, output_format |-> "PNG"],
     step_02 |-> [output_dir |-> "preprocessed", intermediate_dir |-> idir,
                  save_intermediate_steps |-> save, pipeline |-> chain],
     step_03 |-> [output_dir |-> "layout", model_config |-> DefaultModelConfig]]

EmptyFs == [p \in {} |-> Image("")]

\* the image process_image is called on when it is the entry
UnitImage == Path("normalized", "page", "png")
StaleSnapshot == Path("intermediate/grayscale", "page", "png")

UnitFs(present, stale) ==
    [p \in (IF present THEN {UnitImage} ELSE {}) \cup (IF stale THEN {StaleSnapshot} ELSE {})
        |-> IF p = UnitImage THEN Image("page") ELSE Applied(Image("old"), "grayscale")]

InitCommon ==
    /\ step_input_files = NoFiles
    /\ stage = 0
    /\ batch = <<>>
    /\ results = <<>>
    /\ events = <<>>
    /\ exception = None
    /\ logged = FALSE
    /\ elapsed_reported = FALSE
    /\ exit_code = -1
    /\ writes = <<>>
    /\ model_cache = NoModel
    /\ constructed = <<>>
    /\ inferences = <<>>

\* python main.py
InitMain ==
    /\ entry = "main"
    /\ pc = "import"
    /\ image_path = UnitImage
    /\ fs = EmptyFs
    /\ \/ /\ process_file_defined = TRUE
          /\ config_file = "mapping"
          /\ input_files \in InputLists
          /\ \E pl \in PipelineLists, chain \in SeqsUpTo(RunDescriptors, 1) :
                config = Config(pl, chain, FALSE, None)
       \/ /\ process_file_defined = TRUE
          /\ config_file \in ConfigFiles \ {"mapping"}
          /\ input_files = <<>>
          /\ config = Config(<<>>, <<>>, FALSE, None)
       \/ /\ process_file_defined = FALSE
          /\ config_file = "mapping"
          /\ input_files \in InputLists
          /\ \E pl \in PipelineLists :
                config = Config(pl, <<Descriptor("grayscale", TRUE, None)>>, FALSE, None)

\* step_02's process_image(image_path, config) called on one image
InitProcessImage ==
    /\ entry = "process_image"
    /\ pc = "call"
    /\ process_file_defined = TRUE
    /\ config_file = "mapping"
    /\ input_files = <<>>
    /\ image_path = UnitImage
    /\ \E chain \in SeqsUpTo(Descriptors, MaxChain) :
          \/ /\ config = Config(<<>>, chain, TRUE, "intermediate")
             /\ fs \in {UnitFs(TRUE, FALSE), UnitFs(TRUE, TRUE)}
          \/ /\ config = Config(<<>>, chain, TRUE, None)
             /\ fs = UnitFs(TRUE, FALSE)
          \/ /\ config = Config(<<>>, chain, FALSE, "intermediate")
             /\ fs = UnitFs(TRUE, FALSE)
          \/ /\ chain = <<>>
             /\ config = Config(<<>>, chain, FALSE, None)
             /\ fs = UnitFs(FALSE, FALSE)

\* step_03's process_image(image_path, config) called some times in one
\* process, each call with the configuration its caller passes
InitLayout ==
    /\ entry = "layout"
    /\ pc = "call_layout"
    /\ process_file_defined = TRUE
    /\ config_file = "mapping"
    /\ input_files = <<>>
    /\ image_path = UnitImage
    /\ config = Config(<<>>, <<>>, FALSE, None)
    /\ fs \in {UnitFs(TRUE, FALSE), UnitFs(FALSE, FALSE)}

Init == InitCommon /\ (InitMain \/ InitProcessImage \/ InitLayout)

\* ------------------------------------------------------------------ main.py
\* "from pipeline_manager import PipelineManager": pipeline_manager's own
\* imports run; a missing name is an ImportError outside main()'s try
ImportModules ==
    /\ pc = "import"
    /\ IF process_file_defined
       THEN /\ pc' = "construct"
            /\ UNCHANGED <<exception, exit_code>>
       ELSE /\ pc' = "exited"
            /\ exception' = "ImportError"
            /\ exit_code' = 1
    /\ UNCHANGED <<entry, process_file_defined, config_file, config, input_files, fs,
                   step_input_files, stage, batch, results, events, logged,
                   elapsed_reported, image_path, writes,
                   model_cache, constructed, inferences>>

\* manager = PipelineManager(config_path="config.yaml")
Construct ==
    /\ pc = "construct"
    /\ IF load_config_raises(config_file) = None
       THEN /\ pc' = "run"
            /\ UNCHANGED exception
       ELSE /\ pc' = "except"
            /\ exception' = load_config_raises(config_file)
    /\ UNCHANGED <<entry, process_file_defined, config_file, config, input_files, fs,
                   step_input_files, stage, batch, results, events, logged,
                   elapsed_reported, exit_code, image_path, writes,
                   model_cache, constructed, inferences>>

\* run(): pipeline_steps is read with self.config.get, which what
\* yaml.safe_load returned has only when it is a mapping; step_input_files = None
RunStart ==
    /\ pc = "run"
    /\ IF config_file = "mapping"
       THEN /\ pc' = "stage"
            /\ stage' = 1
            /\ step_input_files' = NoFiles
            /\ UNCHANGED exception
       ELSE /\ pc' = "except"
            /\ exception' = "AttributeError"
            /\ UNCHANGED <<stage, step_input_files>>
    /\ UNCHANGED <<entry, process_file_defined, config_file, config, input_files, fs,
                   batch, results, events, logged, elapsed_reported, exit_code,
                   image_path, writes,
                   model_cache, constructed, inferences>>

\* "if <stage name> in pipeline_steps" is false
SkipStage ==
    /\ pc = "stage"
    /\ stage \in Stages
    /\ ~Enabled(stage, config)
    /\ stage' = NextStage(stage)
    /\ UNCHANGED <<entry, pc, process_file_defined, config_file, config, input_files, fs,
                   step_input_files, batch, results, events, exception, logged,
                   elapsed_reported, exit_code, image_path, writes,
                   model_cache, constructed, inferences>>

\* "if not step_input_files: raise ValueError(...)"
AbortStage ==
    /\ pc = "stage"
    /\ stage \in Stages
    /\ Enabled(stage, config)
    /\ MustAbort(stage, step_input_files)
    /\ exception' = "ValueError"
    /\ pc' = "except"
    /\ events' = Append(events, Event("Aborted", stage, <<>>))
    /\ UNCHANGED <<entry, process_file_defined, config_file, config, input_files, fs,
                   step_input_files, stage, batch, results, logged, elapsed_reported,
                   exit_code, image_path, writes,
                   model_cache, constructed, inferences>>

\* the stage runner is called: step 1 on the discovered files, steps 2 and 3
\* on step_input_files
StartStage ==
    /\ pc = "stage"
    /\ stage \in Stages
    /\ Enabled(stage, config)
    /\ ~MustAbort(stage, step_input_files)
    /\ batch' = IF stage = 1 THEN input_files ELSE step_input_files.list
    /\ results' = <<>>
    /\ pc' = "items"
    /\ events' = Append(events, Event("Running", stage, batch'))
    /\ UNCHANGED <<entry, process_file_defined, config_file, config, input_files, fs,
                   step_input_files, stage, exception, logged, elapsed_reported, exit_code,
                   image_path, writes,
                   model_cache, constructed, inferences>>

\* one element of the runner's list comprehension returns
InvokeItemReturns ==
    /\ pc = "items"
    /\ Len(results) < Len(batch)
    /\ \E env \in LayoutEnvs :
          LET item == batch[Len(results) + 1]
              o == StageCall(stage, fs, item, config, model_cache, env)
              m == ModelAfter(stage, fs, item, config, env)
          IN /\ o.res.kind # "raise"
             /\ model_cache' = m.cache
             /\ constructed' = m.constructed
             /\ inferences' = m.inferences
             /\ fs' = o.fs
             /\ writes' = o.writes
             /\ image_path' = item
             /\ results' = Append(results, o.res)
             /\ events' = Append(events, Event("Invoke", stage, <<item>>))
             /\ pc' = AfterItem(o.res)
    /\ UNCHANGED <<entry, process_file_defined, config_file, config, input_files,
                   step_input_files, stage, batch, exception, logged, elapsed_reported,
                   exit_code>>

\* one element of the runner's list comprehension raises: the exception leaves
\* the comprehension, the runner and run()
InvokeItemRaises ==
    /\ pc = "items"
    /\ Len(results) < Len(batch)
    /\ \E env \in LayoutEnvs :
          LET item == batch[Len(results) + 1]
              o == StageCall(stage, fs, item, config, model_cache, env)
              m == ModelAfter(stage, fs, item, config, env)
          IN /\ o.res.kind = "raise"
             /\ model_cache' = m.cache
             /\ constructed' = m.constructed
             /\ inferences' = m.inferences
             /\ fs' = o.fs
             /\ writes' = o.writes
             /\ image_path' = item
             /\ exception' = o.res.exc
             /\ events' = Append(events, Event("Failed", stage, <<item>>))
             /\ pc' = AfterItem(o.res)
    /\ UNCHANGED <<entry, process_file_defined, config_file, config, input_files,
                   step_input_files, stage, batch, results, logged, elapsed_reported,
                   exit_code>>

\* the runner returns; run() assigns step_input_files and logs the completion
CompleteStage ==
    /\ pc = "items"
    /\ Len(results) = Len(batch)
    /\ step_input_files' = Files(RunnerReturn(stage, results))
    /\ events' = Append(events, Event("Completed", stage, step_input_files'.list))
    /\ stage' = NextStage(stage)
    /\ pc' = "stage"
    /\ UNCHANGED <<entry, process_file_defined, config_file, config, input_files, fs,
                   batch, results, exception, logged, elapsed_reported, exit_code,
                   image_path, writes,
                   model_cache, constructed, inferences>>

\* "Pipeline finished.": run() returns to main()
RunFinish ==
    /\ pc = "stage"
    /\ stage \notin Stages
    /\ events' = Append(events, Event("Finished", 0, <<>>))
    /\ pc' = "finally"
    /\ UNCHANGED <<entry, process_file_defined, config_file, config, input_files, fs,
                   step_input_files, stage, batch, results, exception, logged,
                   elapsed_reported, exit_code, image_path, writes,
                   model_cache, constructed, inferences>>

\* except Exception as e: logger.exception(...)
MainExcept ==
    /\ pc = "except"
    /\ logged' = TRUE
    /\ pc' = "finally"
    /\ UNCHANGED <<entry, process_file_defined, config_file, config, input_files, fs,
                   step_input_files, stage, batch, results, events, exception,
                   elapsed_reported, exit_code, image_path, writes,
                   model_cache, constructed, inferences>>

\* finally: the elapsed time is logged; main() returns and the interpreter exits
MainFinally ==
    /\ pc = "finally"
    /\ elapsed_reported' = TRUE
    /\ exit_code' = 0
    /\ pc' = "exited"
    /\ UNCHANGED <<entry, process_file_defined, config_file, config, input_files, fs,
                   step_input_files, stage, batch, results, events, exception, logged,
                   image_path, writes,
                   model_cache, constructed, inferences>>

\* process_image(image_path, config) of step_02 as the entry
CallProcessImage ==
    /\ pc = "call"
    /\ LET o == preprocess_image(fs, image_path, config)
       IN /\ fs' = o.fs
          /\ writes' = o.writes
          /\ results' = <<o.res>>
          /\ exception' = IF o.res.kind = "raise" THEN o.res.exc ELSE None
    /\ pc' = "returned"
    /\ UNCHANGED <<entry, process_file_defined, config_file, config, input_files,
                   step_input_files, stage, batch, events, logged, elapsed_reported,
                   exit_code, image_path,
                   model_cache, constructed, inferences>>

\* process_image(image_path, config) of step_03 as the entry, called again
\* and again in the same process; the caller catches what it raises
CallLayoutAnalysis ==
    /\ pc = "call_layout"
    /\ Len(results) < MaxLayoutCalls
    /\ \E mc \in ModelConfigs, env \in LayoutEnvs :
          LET cfg == [config EXCEPT !.step_03.model_config = mc]
              o == layout_analysis(fs, image_path, cfg, model_cache, env)
              m == ModelAfter(3, fs, image_path, cfg, env)
          IN /\ config' = cfg
             /\ fs' = o.fs
             /\ writes' = o.writes
             /\ results' = Append(results, o.res)
             /\ model_cache' = m.cache
             /\ constructed' = m.constructed
             /\ inferences' = m.inferences
    /\ UNCHANGED <<entry, pc, process_file_defined, config_file, input_files,
                   step_input_files, stage, batch, events, exception, logged,
                   elapsed_reported, exit_code, image_path>>

Next ==
    \/ ImportModules
    \/ Construct
    \/ RunStart
    \/ SkipStage
    \/ AbortStage
    \/ StartStage
    \/ InvokeItemReturns
    \/ InvokeItemRaises
    \/ CompleteStage
    \/ RunFinish
    \/ MainExcept
    \/ MainFinally
    \/ CallProcessImage
    \/ CallLayoutAnalysis

Spec == Init /\ [][Next]_vars

\* ------------------------------------------------------- reading the history
NEvents == Len(events)

IsEv(k, e, s) == events[k].ev = e /\ events[k].stage = s

Happened(e, s) == \E k \in 1..NEvents : IsEv(k, e, s)

\* index of the last "Completed" event before event k, 0 when there is none
LastCompletedBefore(k) ==
    LET js == {j \in 1..(k - 1) : events[j].ev = "Completed"}
    IN IF js = {} THEN 0 ELSE CHOOSE j \in js : \A i \in js : i <= j

\* index of the "Running" event of the stage that event k belongs to
RunningOf(k) ==
    CHOOSE r \in 1..k : IsEv(r, "Running", events[k].stage)
                        /\ \A j \in (r + 1)..k : events[j].ev # "Running"

\* the paths one stage-function result contributes to the runner's output
Contribution(r) ==
    CASE r.kind = "one" -> <<r.path>>
      [] r.kind = "many" -> r.paths
      [] r.kind = "pair" -> <<r.json>>

RECURSIVE Offset(_, _)
Offset(rs, i) == IF i <= 1 THEN 0 ELSE Offset(rs, i - 1) + Len(Contribution(rs[i - 1]))

\* out is the concatenation, in order, of the contributions of rs
IsConcatenation(out, rs) ==
    /\ Len(out) = Offset(rs, Len(rs) + 1)
    /\ \A i \in 1..Len(rs) : \A j \in 1..Len(Contribution(rs[i])) :
          out[Offset(rs, i) + j] = Contribution(rs[i])[j]

\* the result of the stage function of stage s on item, files being as they are now
ResultOn(s, item) == StageCall(s, fs, item, config, model_cache, "ok").res

\* the stage-s check of run() has been passed
Decided(s) ==
    /\ entry = "main"
    /\ \/ stage \in Stages /\ stage > s
       \/ stage \notin Stages /\ stage > 0
       \/ stage = s /\ pc # "stage"

\* C1: when step 2 or step 3 is enabled and the carried-forward list is absent
\* or empty, run() raises ValueError before the stage runner is called, and
\* no item of that stage or of a later one is processed; a stage runner of
\* step 2 or 3 is only ever entered with a non-empty list.
C1_AbortWithoutInput ==
    /\ \A s \in {2, 3} :
          (Enabled(s, config) /\ Decided(s)) =>
             \E k \in 1..NEvents :
                /\ IsEv(k, "Running", s) \/ IsEv(k, "Aborted", s)
                /\ LET j == LastCompletedBefore(k)
                   IN (j = 0 \/ events[j].list = <<>>) =>
                         /\ IsEv(k, "Aborted", s)
                         /\ k = NEvents
                         /\ exception = "ValueError"
                         /\ pc \in {"except", "finally", "exited"}
                         /\ \A i \in 1..NEvents :
                               events[i].ev \in {"Running", "Invoke", "Failed", "Completed"}
                                  => events[i].stage < s
    /\ \A k \in 1..NEvents :
          /\ (events[k].ev = "Running" /\ events[k].stage # 1) => events[k].list # <<>>
          /\ events[k].ev = "Aborted" =>
                /\ k = NEvents
                /\ LET j == LastCompletedBefore(k)
                   IN j = 0 \/ events[j].list = <<>>

\* step 1 ran and produced nothing, step 2 was refused
C1_Witness ==
    /\ NEvents = 3
    /\ IsEv(2, "Completed", 1) /\ events[2].list = <<>>
    /\ IsEv(3, "Aborted", 2)
    /\ pc = "exited"

\* C2: a stage runner's input is the list returned by the stage run most
\* recently; its function is called once on every element, in order; the
\* carried-forward list becomes the concatenation of the per-item results
\* (the json path for layout analysis); stages not enabled never run.
C2_Threading ==
    /\ \A k \in 1..NEvents :
          /\ events[k].ev \in {"Running", "Invoke", "Failed"} => Enabled(events[k].stage, config)
          /\ (events[k].ev = "Running" /\ events[k].stage # 1) =>
                LET j == LastCompletedBefore(k)
                IN j > 0 /\ events[k].list = events[j].list
          /\ (events[k].ev = "Running" /\ events[k].stage = 1) => events[k].list = input_files
          /\ events[k].ev = "Completed" =>
                LET s == events[k].stage
                    r == RunningOf(k)
                    input == events[r].list
                    n == Len(input)
                IN /\ k = r + n + 1
                   /\ \A i \in 1..n : IsEv(r + i, "Invoke", s) /\ events[r + i].list = <<input[i]>>
                   /\ IsConcatenation(events[k].list, [i \in 1..n |-> ResultOn(s, input[i])])
    /\ (entry = "main" /\ pc = "stage" /\ stage > 1) =>
          LET j == LastCompletedBefore(NEvents + 1)
          IN IF j = 0 THEN step_input_files = NoFiles
             ELSE step_input_files = Files(events[j].list)

\* [step_01, step_03] enabled: layout analysis ran on what normalize returned
C2_Witness ==
    /\ ~Enabled(2, config)
    /\ \E k \in 1..NEvents, j \in 1..NEvents :
          /\ IsEv(j, "Completed", 1) /\ Len(events[j].list) > 1
          /\ IsEv(k, "Completed", 3) /\ Len(events[k].list) = Len(events[j].list)

\* C3: the list a runner of step 1 or step 2 returns is the concatenation, in
\* input order, of its per-item results: a single path contributes itself, a
\* list of paths (an empty one too) contributes its elements in order.
C3_Flattening ==
    (entry = "main" /\ NEvents > 0 /\ events[NEvents].ev = "Completed"
        /\ events[NEvents].stage \in {1, 2})
    => /\ Len(results) = Len(batch)
       /\ \A i \in 1..Len(results) : results[i] = ResultOn(events[NEvents].stage, batch[i])
       /\ IsConcatenation(step_input_files.list, results)
       /\ Len(step_input_files.list) = Offset(results, Len(results) + 1)

\* step 1 flattened a single path next to a list of several
C3_Witness ==
    /\ NEvents > 0 /\ IsEv(NEvents, "Completed", 1)
    /\ \E i, j \in 1..Len(results) :
          /\ i < j
          /\ results[i].kind = "many" /\ Len(results[i].paths) > 1
          /\ results[j].kind = "one"

\* position of stage s in app.pipeline, 0 when it is not listed
PositionInList(s) ==
    IF Enabled(s, config)
    THEN CHOOSE i \in 1..Len(config.app_pipeline) : config.app_pipeline[i] = StageName(s)
    ELSE 0

\* stage a has completed before event k
CompletedBefore(a, k) == \E j \in 1..(k - 1) : IsEv(j, "Completed", a)

\* C4 as stated: stages run in the order of their names in app.pipeline.
C4_ListOrder ==
    \A a \in Stages, b \in Stages :
       (Enabled(a, config) /\ Enabled(b, config) /\ PositionInList(a) < PositionInList(b))
       => \A k \in 1..NEvents : IsEv(k, "Running", b) => CompletedBefore(a, k)

\* C4 amended: the enabled stages run in the fixed order normalize,
\* preprocess, layout, whatever the order of their names in app.pipeline;
\* a stage starts only after every enabled stage before it has completed, and
\* the run finishes only after every enabled stage has completed.
C4_FixedOrder ==
    /\ \A a \in Stages, b \in Stages :
          (Enabled(a, config) /\ Enabled(b, config) /\ a < b)
          => \A k \in 1..NEvents : IsEv(k, "Running", b) => CompletedBefore(a, k)
    /\ \A a \in Stages : \A k \in 1..NEvents :
          IsEv(k, "Completed", a) => \E j \in 1..(k - 1) : IsEv(j, "Running", a)
    /\ \A k \in 1..NEvents :
          events[k].ev = "Finished" =>
             /\ k = NEvents
             /\ \A a \in Stages : Enabled(a, config) => CompletedBefore(a, k)

\* all three stages listed in reverse order ran to the end in the fixed order
C4_Witness ==
    /\ config.app_pipeline = <<StageName(3), StageName(2), StageName(1)>>
    /\ NEvents > 0 /\ events[NEvents].ev = "Finished"
    /\ pc = "exited"

\* --------------------------------------------------------------- C5 .. C10
\* the call of step_02's process_image most recently made has ended
PreprocessCalled ==
    \/ entry = "process_image" /\ pc = "returned"
    \/ /\ entry = "main" /\ NEvents > 0
       /\ events[NEvents].stage = 2 /\ events[NEvents].ev \in {"Invoke", "Failed"}

\* what that call returned or raised
CallResult == IF exception # None THEN Raise(exception) ELSE results[Len(results)]

Chain == config.step_02.pipeline

\* the file the call read
SourceImage == fs[image_path]

FinalPath == Path(config.step_02.output_dir, image_path.base, image_path.ext)

\* a descriptor the chain applies: enabled and of a recognized type
Applies(d) == d.enabled /\ d.type \in {"grayscale", "denoise", "threshold", "deskew"}

\* an enabled threshold descriptor with an unknown method
UnknownMethod(d) ==
    /\ d.enabled /\ d.type = "threshold"
    /\ d.method \notin ThresholdMethods \cup {None}

\* the operation a descriptor stands for
OpOf(d) ==
    IF d.type = "threshold"
    THEN "threshold:" \o (IF d.method = None THEN "adaptive_gaussian" ELSE d.method)
    ELSE d.type

\* the descriptors of the chain that apply, in chain order
Ds == SelectSeq(Chain, Applies)

\* channels of the image after the first k of the descriptors ds: three as
\* read, one from the first grayscale conversion on
ChannelsAfter(ds, k) == IF \E i \in 1..k : ds[i].type = "grayscale" THEN 1 ELSE 3

\* the i-th of ds is handed an image OpenCV does not take: a grayscale
\* conversion a single-channel one, an adaptive or Otsu threshold a colour one
Rejected(ds, i) ==
    \/ ds[i].type = "grayscale" /\ ChannelsAfter(ds, i - 1) = 1
    \/ /\ ds[i].type = "threshold"
       /\ ds[i].method \in {None, "adaptive_gaussian", "otsu"}
       /\ ChannelsAfter(ds, i - 1) # 1

\* index of the first of ds that raises, Len + 1 if none does
FirstFailure(ds) ==
    LET bad == {i \in 1..Len(ds) : UnknownMethod(ds[i]) \/ Rejected(ds, i)}
    IN IF bad = {} THEN Len(ds) + 1 ELSE CHOOSE i \in bad : \A j \in bad : i <= j

\* img as read, after the first k of the descriptors ds
After(img, ds, k) ==
    [src |-> img.src, ops |-> img.ops \o [i \in 1..k |-> OpOf(ds[i])],
     channels |-> ChannelsAfter(ds, k)]

\* C5 as stated: with [normalize, preprocess] enabled, one discovered PDF of
\* N >= 1 pages and a filter chain that raises nothing, the program ends
\* without error, normalize having returned <base>_page_1 .. <base>_page_N with
\* the configured extension and preprocess the same names in its output_dir.
C5_PdfScenario ==
    (/\ entry = "main"
     /\ pc = "exited"
     /\ config_file = "mapping"
     /\ config.app_pipeline = <<StageName(1), StageName(2)>>
     /\ Len(input_files) = 1 /\ input_files[1] \in PdfFiles /\ PageCount(input_files[1]) >= 1
     /\ FirstFailure(Ds) > Len(Ds))
    => LET n == PageCount(input_files[1])
           name(i) == input_files[1].base \o "_page_" \o ToString(i)
       IN /\ exception = None
          /\ NEvents > 0 /\ events[NEvents].ev = "Finished"
          /\ \E k \in 1..NEvents :
                /\ IsEv(k, "Completed", 1)
                /\ events[k].list = [i \in 1..n |-> Path("normalized", name(i), "png")]
          /\ \E k \in 1..NEvents :
                /\ IsEv(k, "Completed", 2)
                /\ events[k].list = [i \in 1..n |-> Path("preprocessed", name(i), "png")]

\* C6: a descriptor that is disabled or of an unrecognized type changes
\* nothing, raises nothing and does not end the iteration: the call returns
\* exactly when none of the enabled descriptors of a recognized type raises,
\* the image written is then the source image with exactly those descriptors
\* applied in chain order, and what the call raises otherwise is what the
\* first failing one of them raises.
C6_SkipsAreNoOps ==
    (PreprocessCalled /\ image_path \in DOMAIN fs) =>
       LET b == FirstFailure(Ds)
       IN /\ (b > Len(Ds)) = (CallResult = One(FinalPath))
          /\ CallResult.kind = "one" =>
                /\ FinalPath \in DOMAIN fs
                /\ fs[FinalPath] = After(SourceImage, Ds, Len(Ds))
                /\ writes[Len(writes)] = [path |-> FinalPath, img |-> fs[FinalPath]]
          /\ CallResult.kind = "raise" =>
                /\ b <= Len(Ds)
                /\ CallResult.exc = IF UnknownMethod(Ds[b]) THEN "ValueError" ELSE "cv2.error"

\* a disabled descriptor and an unrecognized one, then a filter that applied
C6_Witness ==
    /\ entry = "process_image" /\ pc = "returned"
    /\ Len(Chain) = 3
    /\ ~Chain[1].enabled /\ Chain[1].type = "threshold" /\ Chain[1].method = "median"
    /\ Chain[2].enabled /\ Chain[2].type = "unknown_op"
    /\ Applies(Chain[3])
    /\ results = <<One(FinalPath)>>
    /\ Len(fs[FinalPath].ops) = 1

\* C7: an enabled threshold descriptor with an unknown method raises
\* ValueError when the chain reaches it (no filter in front of it has
\* raised): no filter after it is applied, no final image is written for the
\* item, and in a pipeline run the exception leaves run(): stage 2 does not
\* complete and no later stage starts.
C7_UnknownMethodIsFatal ==
    (/\ PreprocessCalled /\ image_path \in DOMAIN fs
     /\ FirstFailure(Ds) <= Len(Ds) /\ UnknownMethod(Ds[FirstFailure(Ds)])) =>
       LET b == FirstFailure(Ds)
       IN /\ CallResult = Raise("ValueError")
          /\ \A i \in 1..Len(writes) : writes[i].path # FinalPath
          /\ FinalPath \notin DOMAIN fs
          /\ Len(writes) = IF SaveIntermediate(config.step_02) THEN b - 1 ELSE 0
          /\ \A i \in 1..Len(writes) : writes[i].img = After(SourceImage, Ds, i)
          /\ entry = "main" =>
                /\ events[NEvents].ev = "Failed"
                /\ pc \in {"except", "finally", "exited"}
                /\ ~Happened("Completed", 2)
                /\ \A k \in 1..NEvents : events[k].stage <= 2

\* a filter applied and was snapshotted, the threshold after it raised, the
\* filter after that never ran
C7_Witness ==
    /\ entry = "process_image" /\ pc = "returned"
    /\ Len(Chain) = 3
    /\ Applies(Chain[1]) /\ ~UnknownMethod(Chain[1])
    /\ UnknownMethod(Chain[2])
    /\ Applies(Chain[3])
    /\ exception = "ValueError"
    /\ Len(writes) = 1

\* the pipeline run was ended by it
C7_RunWitness ==
    /\ entry = "main" /\ pc = "exited"
    /\ exception = "ValueError"
    /\ Happened("Failed", 2)

\* C8 as stated: when one call of a stage function raises, the failure
\* leaves the runner only after every other item of the batch has been
\* called; then the run aborts.
C8_WholeBatchCalled ==
    \A k \in 1..NEvents :
       events[k].ev = "Failed" =>
          /\ \A i \in 1..Len(batch) :
                \E j \in 1..NEvents :
                   /\ events[j].stage = events[k].stage
                   /\ events[j].ev \in {"Invoke", "Failed"}
                   /\ events[j].list = <<batch[i]>>
          /\ pc \in {"except", "finally", "exited"}

\* C8 amended: when one call of a stage function raises, the failure leaves
\* the runner at once: the items before it have returned, the items after
\* it are never called; the run aborts, the stage does not complete, no later
\* stage starts and the carried-forward list is left as it was.
C8_FailFast ==
    \A k \in 1..NEvents :
       events[k].ev = "Failed" =>
          LET s == events[k].stage
              r == RunningOf(k)
              n == k - r - 1
              j == LastCompletedBefore(k)
          IN /\ k = NEvents
             /\ batch = events[r].list
             /\ n < Len(batch) /\ events[k].list = <<batch[n + 1]>>
             /\ \A i \in 1..n : IsEv(r + i, "Invoke", s) /\ events[r + i].list = <<batch[i]>>
             /\ Len(results) = n
             /\ exception # None
             /\ pc \in {"except", "finally", "exited"}
             /\ stage = s
             /\ step_input_files = IF j = 0 THEN NoFiles ELSE Files(events[j].list)

\* the first of two items failed: the second was never called
C8_Witness ==
    /\ pc = "exited"
    /\ NEvents = 2 /\ events[2].ev = "Failed"
    /\ Len(batch) = 2
    /\ results = <<>>

\* C9 as stated: when the try block of main() raises, the exception is
\* logged, the elapsed time is reported and the process exits with a
\* non-zero status; when it does not, the elapsed time is reported and the
\* status is zero.
C9_ExitStatus ==
    (entry = "main" /\ pc = "exited" /\ exception # "ImportError") =>
       IF exception # None
       THEN logged /\ elapsed_reported /\ exit_code # 0
       ELSE ~logged /\ elapsed_reported /\ exit_code = 0

\* C10: with save_intermediate_steps set and an intermediate_dir, each
\* applied filter is followed by one write of the image as it then stands
\* to intermediate_dir/<type>/<filename>, a later write replacing an earlier
\* one of the same type; skipped descriptors, and a filter that raises, write
\* nothing; each snapshot on disk is the output of the last applied filter of
\* its type; the final image is written once, to output_dir/<filename>, after
\* the whole chain, when no filter has raised.
C10_Snapshots ==
    (PreprocessCalled /\ image_path \in DOMAIN fs /\ SaveIntermediate(config.step_02)) =>
       LET n == FirstFailure(Ds) - 1
           snap(t) == Path(config.step_02.intermediate_dir \o "/" \o t,
                           image_path.base, image_path.ext)
           returned == CallResult.kind = "one"
       IN /\ Len(writes) = n + (IF returned THEN 1 ELSE 0)
          /\ \A i \in 1..n :
                writes[i] = [path |-> snap(Ds[i].type), img |-> After(SourceImage, Ds, i)]
          /\ returned =>
                writes[n + 1] = [path |-> FinalPath, img |-> After(SourceImage, Ds, n)]
          /\ \A i \in 1..n :
                (\A j \in (i + 1)..n : Ds[j].type # Ds[i].type) =>
                   /\ snap(Ds[i].type) \in DOMAIN fs
                   /\ fs[snap(Ds[i].type)] = After(SourceImage, Ds, i)
          /\ returned = (n = Len(Ds))

\* a stale grayscale snapshot was on disk and was replaced; denoise applied
\* twice with the conversion between: its snapshot holds the later output
C10_Witness ==
    /\ entry = "process_image" /\ pc = "returned"
    /\ Len(Chain) = 3
    /\ Chain[1].enabled /\ Chain[1].type = "denoise"
    /\ Chain[2].enabled /\ Chain[2].type = "grayscale"
    /\ Chain[3].enabled /\ Chain[3].type = "denoise"
    /\ Len(writes) = 4
    /\ fs[StaleSnapshot].ops = <<"denoise", "grayscale">>
    /\ fs[StaleSnapshot].src = "page"
    /\ fs[Path("intermediate/denoise", "page", "png")] = fs[FinalPath]
    /\ fs[FinalPath].ops = <<"denoise", "grayscale", "denoise">>

\* C11 as stated: the layout model is built on the first layout call and
\* memoized keyed by its configuration: at most one model is constructed per
\* distinct model configuration, a call with a configuration seen before
\* reuses the instance built for it, and every call runs detect on a model
\* constructed from the model configuration of that call.
C11_CacheKeyedByConfig ==
    /\ \A i, j \in 1..Len(constructed) : constructed[i] = constructed[j] => i = j
    /\ \A i, j \in 1..Len(inferences) :
          inferences[i].config = inferences[j].config
             => inferences[i].model = inferences[j].model
    /\ \A i \in 1..Len(inferences) :
          /\ inferences[i].model.id \in 1..Len(constructed)
          /\ constructed[inferences[i].model.id] = inferences[i].model.config
          /\ inferences[i].model.config = inferences[i].config
====
